---- MODULE Spec2Model ----
(***************************************************************************)
(* The marketing KPI dashboard (dashboard.py): a Streamlit script that is  *)
(* re-executed top to bottom on every interaction.  One run is             *)
(*   load_data -> sidebar multiselects -> boolean-mask filter ->           *)
(*   summary KPIs -> charts -> time series -> data table.                  *)
(*                                                                         *)
(* Units.  Conversion_Rate is held in hundredths (10 is 0.10), ROI in      *)
(* hundredths (250 is 2.50x, signed).  Acquisition_Cost is text, a tuple   *)
(* of one-character strings.  A parsed float is kept exactly as            *)
(* [mant, exp], meaning mant / 10^exp; a mean is an exact fraction         *)
(* [num, den] in lowest terms.                                             *)
(***************************************************************************)
EXTENDS Integers, Sequences, FiniteSets, TLC

VARIABLES
    fileExists,      \* whether marketing_campaign_dataset.csv is on disk
    csv,             \* the table the file holds (header and rows)
    cache,           \* what st.cache_data has stored for load_data()
    widgets,         \* the session's multiselect widget values
    interacted,      \* whether the user has changed a widget in this session
    pc,              \* position of the current script run
    df,              \* the script's df
    campaign_filter, \* the script's campaign_filter
    channel_filter,  \* the script's channel_filter
    company_filter,  \* the script's company_filter
    filtered_df,     \* the script's filtered_df
    kpi,             \* the scalar KPIs computed by this run, by variable name
    conv_by_type,    \* the script's conv_by_type
    roi_by_channel,  \* the script's roi_by_channel
    ui,              \* the elements this run has put on the page
    swallowed,       \* the exception the time-series block swallowed, if any
    raised           \* the exception that ended this run, if any

vars == <<fileExists, csv, cache, widgets, interacted, pc, df, campaign_filter,
          channel_filter, company_filter, filtered_df, kpi, conv_by_type,
          roi_by_channel, ui, swallowed, raised>>

(***************************************************************************)
(* Bounds and the input pool                                               *)
(***************************************************************************)
MaxRows == 3

\* Acquisition_Cost texts as tuples of characters.
Cost1234_50 == <<"$", "1", ",", "2", "3", "4", ".", "5", "0">>
Cost0 == <<"$", "0">>
Cost1234567 == <<"$", "1", ",", "2", "3", "4", ",", "5", "6", "7", ".", "0", "0">>
Cost16174 == <<"$", "1", "6", ",", "1", "7", "4", ".", "0", "0">>

Row(id, company, type, channel, cr, roi, clicks, imps, cost, date) ==
    [Campaign_ID |-> id, Company |-> company, Campaign_Type |-> type,
     Channel_Used |-> channel, Conversion_Rate |-> cr, ROI |-> roi,
     Clicks |-> clicks, Impressions |-> imps, Acquisition_Cost |-> cost,
     Date |-> date]

RowPool ==
    { Row(1, "Acme",   "A", "Email",  10,  250, 100, 1000, Cost1234_50, "2021-01-02"),
      Row(2, "Acme",   "A", "Web",    30,  700, 200, 3000, Cost0,       "soon"),
      Row(3, "Globex", "B", "Email",  50, -150, 300, 5000, Cost1234567, "2021-01-01"),
      Row(4, "Globex", "B", "Social", 30,  700, 400, 7000, Cost16174,   "") }


\* The dataset's Date column header as the CSV spells it; "absent" stands for
\* a file without a Date column.
DateHeaders == {"Date", " Date ", "absent"}

SeqsUpTo(S, n) == UNION { [1..k -> S] : k \in 0..n }

Range(s) == { s[i] : i \in 1..Len(s) }

\* pd.read_csv of a file with the given rows and Date header: a frame is its
\* column names and its rows, each row a function from column name to value.
Table(rows, header) ==
    LET base == DOMAIN Row(0, "", "", "", 0, 0, 0, 0, <<>>, "") \ {"Date"}
        cols == IF header = "absent" THEN base ELSE base \cup {header}
    IN  [columns |-> cols,
         rows |-> [i \in 1..Len(rows) |->
                    [c \in cols |-> IF c = header THEN rows[i].Date ELSE rows[i][c]]]]

Datasets == { Table(rows, h) : rows \in SeqsUpTo(RowPool, MaxRows), h \in DateHeaders }

NoFrame == [columns |-> {}, rows |-> <<>>]
NoKpi == [n \in {} |-> 0]

(***************************************************************************)
(* pandas / Python operations used by the script                           *)
(***************************************************************************)
\* str.strip() on the column names that occur.
StripName(name) == IF name = " Date " THEN "Date" ELSE name

\* df.columns = df.columns.str.strip()
StripColumns(frame) ==
    LET cols == { StripName(c) : c \in frame.columns }
        Orig(c) == CHOOSE o \in frame.columns : StripName(o) = c
    IN  [columns |-> cols,
         rows |-> [i \in 1..Len(frame.rows) |->
                    [c \in cols |-> frame.rows[i][Orig(c)]]]]

\* frame[col] as a sequence of values
Column(frame, col) == [i \in 1..Len(frame.rows) |-> frame.rows[i][col]]

\* Series.unique(): the distinct values in order of first appearance
RECURSIVE UniqueFrom(_, _)
UniqueFrom(s, seen) ==
    IF s = <<>> THEN <<>>
    ELSE IF Head(s) \in seen THEN UniqueFrom(Tail(s), seen)
    ELSE <<Head(s)>> \o UniqueFrom(Tail(s), seen \cup {Head(s)})

Unique(s) == UniqueFrom(s, {})

\* Series.isin(values): the boolean mask
Isin(s, values) == [i \in 1..Len(s) |-> s[i] \in values]

\* mask1 & mask2
MaskAnd(m1, m2) == [i \in 1..Len(m1) |-> m1[i] /\ m2[i]]

\* frame[mask]: a new frame holding the rows whose mask entry is True
RECURSIVE SelectByMask(_, _)
SelectByMask(rows, mask) ==
    IF rows = <<>> THEN <<>>
    ELSE (IF Head(mask) THEN <<Head(rows)>> ELSE <<>>)
         \o SelectByMask(Tail(rows), Tail(mask))

BoolIndex(frame, mask) ==
    [columns |-> frame.columns, rows |-> SelectByMask(frame.rows, mask)]

\* An emptiness test that never fires (a run without the empty-result guard).
EmptyNever(frame) == FALSE

\* DataFrame.empty
Empty(frame) == frame.rows = <<>>

\* frame[col] = values: the frame with the column added or replaced
SetColumn(frame, col, values) ==
    LET cols == frame.columns \cup {col}
    IN  [columns |-> cols,
         rows |-> [i \in 1..Len(frame.rows) |->
                    [c \in cols |-> IF c = col THEN values[i]
                                    ELSE frame.rows[i][c]]]]

(***************************************************************************)
(* Text to number: .str.replace('$', '').str.replace(',', '').astype(float)*)
(***************************************************************************)
Digits == {"0", "1", "2", "3", "4", "5", "6", "7", "8", "9"}

DigitVal(c) ==
    CASE c = "0" -> 0 [] c = "1" -> 1 [] c = "2" -> 2 [] c = "3" -> 3
      [] c = "4" -> 4 [] c = "5" -> 5 [] c = "6" -> 6 [] c = "7" -> 7
      [] c = "8" -> 8 [] c = "9" -> 9

RECURSIVE Pow10(_)
Pow10(n) == IF n = 0 THEN 1 ELSE 10 * Pow10(n - 1)

\* A replace that stops after the first occurrence.
RECURSIVE StrReplaceFirst(_, _, _)
StrReplaceFirst(s, old, new) ==
    IF s = <<>> THEN <<>>
    ELSE IF Head(s) = old THEN new \o Tail(s)
    ELSE <<Head(s)>> \o StrReplaceFirst(Tail(s), old, new)

\* str.replace(old, new) for a one-character old: every occurrence is replaced
\* (a one-character pattern is taken literally, '$' included).
RECURSIVE StrReplace(_, _, _)
StrReplace(s, old, new) ==
    IF s = <<>> THEN <<>>
    ELSE (IF Head(s) = old THEN new ELSE <<Head(s)>>)
         \o StrReplace(Tail(s), old, new)

ValueError == [error |-> "ValueError"]

\* float(s) for text over digits, '.', ',' and '$': digits with at most one
\* point and at least one digit; anything else raises ValueError.
RECURSIVE ParseDigits(_, _, _, _)
ParseDigits(s, mant, exp, seenPoint) ==
    IF s = <<>> THEN [mant |-> mant, exp |-> exp]
    ELSE IF Head(s) = "."
         THEN ParseDigits(Tail(s), mant, exp, TRUE)
         ELSE ParseDigits(Tail(s), 10 * mant + DigitVal(Head(s)),
                          IF seenPoint THEN exp + 1 ELSE exp, seenPoint)

ParseFloat(s) ==
    LET points == { i \in 1..Len(s) : s[i] = "." }
        digits == { i \in 1..Len(s) : s[i] \in Digits }
    IN  IF /\ Cardinality(points) <= 1
           /\ digits # {}
           /\ \A i \in 1..Len(s) : s[i] \in Digits \cup {"."}
        THEN ParseDigits(s, 0, 0, FALSE)
        ELSE ValueError

\* one cell of filtered_df['Acquisition_Cost'] cleaned and converted
CostToFloat(text) == ParseFloat(StrReplace(StrReplace(text, "$", <<>>), ",", <<>>))

(***************************************************************************)
(* Aggregates: exact fractions in lowest terms                             *)
(***************************************************************************)
Abs(x) == IF x < 0 THEN -x ELSE x

RECURSIVE Gcd(_, _)
Gcd(a, b) == IF b = 0 THEN a ELSE Gcd(b, a % b)

\* The mean of nothing is NaN (pandas raises no error for it).
NaN == [num |-> 0, den |-> 0]

Frac(num, den) ==
    IF den = 0 THEN NaN
    ELSE LET g == Gcd(Abs(num), den)
         IN  [num |-> num \div g, den |-> den \div g]

FracSub(a, b) == Frac(a.num * b.den - b.num * a.den, a.den * b.den)

FracLess(a, b) == a.num * b.den < b.num * a.den

RECURSIVE SumSeq(_)
SumSeq(s) == IF s = <<>> THEN 0 ELSE Head(s) + SumSeq(Tail(s))

\* Series.sum() of an integer column
Sum(s) == SumSeq(s)

\* A mean taken with integer division.
MeanFloor(s) == IF s = <<>> THEN NaN ELSE Frac(SumSeq(s) \div Len(s), 1)

\* Series.mean() of a numeric column held in integer units
Mean(s) == Frac(SumSeq(s), Len(s))

RECURSIVE MaxExp(_)
MaxExp(s) ==
    IF s = <<>> THEN 0
    ELSE LET m == MaxExp(Tail(s))
         IN  IF Head(s).exp > m THEN Head(s).exp ELSE m

\* Series.mean() of a float column held as [mant, exp]
MeanFloat(s) ==
    LET e == MaxExp(s)
        scaled == [i \in 1..Len(s) |-> s[i].mant * Pow10(e - s[i].exp)]
    IN  Frac(SumSeq(scaled), Len(s) * Pow10(e))

(***************************************************************************)
(* groupby(key)[val].mean(), sort_values(ascending=False), to_datetime     *)
(***************************************************************************)
\* Lexicographic rank of the category names that occur (groupby sorts its keys).
LexRank(name) ==
    CASE name = "A" -> 1 [] name = "Acme" -> 2 [] name = "B" -> 3
      [] name = "Email" -> 4 [] name = "Globex" -> 5 [] name = "Social" -> 6
      [] name = "Web" -> 7

RECURSIVE SortedKeys(_)
SortedKeys(S) ==
    IF S = {} THEN <<>>
    ELSE LET least == CHOOSE k \in S : \A o \in S : LexRank(k) <= LexRank(o)
         IN  <<least>> \o SortedKeys(S \ {least})

\* frame.groupby(key)[val].mean(): one entry per key present, keys ascending
GroupByMean(frame, key, val) ==
    LET keys == SortedKeys(Range(Column(frame, key)))
        Members(k) == SelectSeq(frame.rows, LAMBDA r : r[key] = k)
    IN  [i \in 1..Len(keys) |->
          [key |-> keys[i],
           value |-> Mean([j \in 1..Len(Members(keys[i])) |->
                            Members(keys[i])[j][val]])]]

\* Insert one entry into a list already in descending order of value, after
\* the entries that tie with it.
RECURSIVE InsertDesc(_, _)
InsertDesc(x, sorted) ==
    IF sorted = <<>> THEN <<x>>
    ELSE IF FracLess(Head(sorted).value, x.value) THEN <<x>> \o sorted
    ELSE <<Head(sorted)>> \o InsertDesc(x, Tail(sorted))

RECURSIVE SortFrom(_, _)
SortFrom(todo, sorted) ==
    IF todo = <<>> THEN sorted
    ELSE SortFrom(Tail(todo), InsertDesc(Head(todo), sorted))

\* The grouped means left in groupby's key order.
NoSort(entries) == entries

\* Series.sort_values(ascending=False)
SortValuesDesc(entries) == SortFrom(entries, <<>>)

NaT == [nat |-> TRUE, day |-> 0]

\* pd.to_datetime(text, errors="coerce") of one cell: the day number of a
\* calendar date, NaT for a missing cell ("") or text that is no date.
ToDatetime(text) ==
    CASE text = "2021-01-01" -> [nat |-> FALSE, day |-> 18628]
      [] text = "2021-01-02" -> [nat |-> FALSE, day |-> 18629]
      [] OTHER -> NaT

\* Series.isnull().all()
AllNull(s) == \A i \in 1..Len(s) : s[i].nat

\* A multiselect created without default=: nothing is selected at first.
MultiselectNoDefault(dim, default) ==
    IF widgets.registered THEN widgets[dim] ELSE {}

\* st.sidebar.multiselect(label, options, default): the widget's value is its
\* default until the session holds a value for it.
Multiselect(dim, default) ==
    IF widgets.registered THEN widgets[dim] ELSE Range(default)

(***************************************************************************)
(* The script, statement block by statement block                          *)
(***************************************************************************)
Dims == {"Campaign_Type", "Channel_Used", "Company"}

IsError(x) == "error" \in DOMAIN x

\* A filter that forgets the Company condition.
ApplyFiltersNoCompany(frame, campaign, channel, company) ==
    BoolIndex(frame,
              MaskAnd(Isin(Column(frame, "Campaign_Type"), campaign),
                      Isin(Column(frame, "Channel_Used"), channel)))

\* A filter that reads an empty selection as "no constraint".
ApplyFiltersEmptyOpen(frame, campaign, channel, company) ==
    LET Open(col, selection) ==
            IF selection = {} THEN [i \in 1..Len(frame.rows) |-> TRUE]
            ELSE Isin(Column(frame, col), selection)
    IN  BoolIndex(frame,
                  MaskAnd(MaskAnd(Open("Campaign_Type", campaign),
                                  Open("Channel_Used", channel)),
                          Open("Company", company)))

\* filtered_df = df[isin(campaign) & isin(channel) & isin(company)]
ApplyFilters(frame, campaign, channel, company) ==
    BoolIndex(frame,
              MaskAnd(MaskAnd(Isin(Column(frame, "Campaign_Type"), campaign),
                              Isin(Column(frame, "Channel_Used"), channel)),
                      Isin(Column(frame, "Company"), company)))

\* filtered_df['Acquisition_Cost'] cleaned and converted, cell by cell
CostColumn(frame) ==
    [i \in 1..Len(frame.rows) |-> CostToFloat(frame.rows[i].Acquisition_Cost)]

\* The scalars the KPI block computes, by the script's variable names; the
\* two deltas are the st.metric delta arguments.
SummaryKpis(frame, filtered) ==
    LET avg_conversion == Mean(Column(filtered, "Conversion_Rate"))
        avg_roi == Mean(Column(filtered, "ROI"))
    IN  [avg_conversion |-> avg_conversion,
         conversion_delta |->
             FracSub(avg_conversion, Mean(Column(frame, "Conversion_Rate"))),
         avg_roi |-> avg_roi,
         roi_delta |-> FracSub(avg_roi, Mean(Column(frame, "ROI"))),
         total_clicks |-> Sum(Column(filtered, "Clicks")),
         avg_cost |-> MeanFloat(Column(filtered, "Acquisition_Cost_Numeric"))]

\* An "except KeyError:" in place of the bare except.
ExceptKeyErrorOnly(exc) == exc = "KeyError"

\* The bare "except:" of the time-series block catches every exception.
ExceptCatches(exc) == TRUE

NoWidgets ==
    [registered |-> FALSE, Campaign_Type |-> {}, Channel_Used |-> {}, Company |-> {}]

\* A script run starts with an empty namespace and an empty page.
FreshRun ==
    /\ pc' = "load"
    /\ df' = NoFrame
    /\ campaign_filter' = {}
    /\ channel_filter' = {}
    /\ company_filter' = {}
    /\ filtered_df' = NoFrame
    /\ kpi' = NoKpi
    /\ conv_by_type' = <<>>
    /\ roi_by_channel' = <<>>
    /\ ui' = {}
    /\ swallowed' = "none"
    /\ raised' = "none"

Init ==
    /\ fileExists \in BOOLEAN
    /\ csv \in (IF fileExists THEN Datasets ELSE {NoFrame})
    /\ cache = NoFrame
    /\ widgets = NoWidgets
    /\ interacted = FALSE
    /\ pc = "load"
    /\ df = NoFrame
    /\ campaign_filter = {}
    /\ channel_filter = {}
    /\ company_filter = {}
    /\ filtered_df = NoFrame
    /\ kpi = NoKpi
    /\ conv_by_type = <<>>
    /\ roi_by_channel = <<>>
    /\ ui = {}
    /\ swallowed = "none"
    /\ raised = "none"

Cached == cache.columns # {}

\* load_data() returning a frame (read now, or a copy of the cached one), then
\* df.columns = df.columns.str.strip()
LoadDataOk ==
    /\ pc = "load"
    /\ Cached \/ fileExists
    /\ cache' = (IF Cached THEN cache ELSE csv)
    /\ df' = StripColumns(cache')
    /\ ui' = ui \cup {"success"}
    /\ pc' = "sidebar"
    /\ UNCHANGED <<fileExists, csv, widgets, interacted, campaign_filter,
                   channel_filter, company_filter, filtered_df, kpi,
                   conv_by_type, roi_by_channel, swallowed, raised>>

\* load_data() finding no file and reporting it, without the st.stop().
LoadDataMissingNoStop ==
    /\ pc = "load"
    /\ ~Cached
    /\ ~fileExists
    /\ ui' = ui \cup {"error", "info"}
    /\ pc' = "sidebar"
    /\ UNCHANGED <<fileExists, csv, cache, widgets, interacted, df,
                   campaign_filter, channel_filter, company_filter,
                   filtered_df, kpi, conv_by_type, roi_by_channel, swallowed,
                   raised>>

\* load_data() finding no file: st.error, st.info, st.stop()
LoadDataMissing ==
    /\ pc = "load"
    /\ ~Cached
    /\ ~fileExists
    /\ ui' = ui \cup {"error", "info"}
    /\ pc' = "stopped"
    /\ UNCHANGED <<fileExists, csv, cache, widgets, interacted, df,
                   campaign_filter, channel_filter, company_filter,
                   filtered_df, kpi, conv_by_type, roi_by_channel, swallowed,
                   raised>>

\* page title and the three sidebar multiselects
Sidebar ==
    /\ pc = "sidebar"
    /\ campaign_filter' =
           Multiselect("Campaign_Type", Unique(Column(df, "Campaign_Type")))
    /\ channel_filter' =
           Multiselect("Channel_Used", Unique(Column(df, "Channel_Used")))
    /\ company_filter' = Multiselect("Company", Unique(Column(df, "Company")))
    /\ widgets' = [registered |-> TRUE,
                   Campaign_Type |-> campaign_filter',
                   Channel_Used |-> channel_filter',
                   Company |-> company_filter']
    /\ ui' = ui \cup {"title", "filters"}
    /\ pc' = "apply"
    /\ UNCHANGED <<fileExists, csv, cache, interacted, df, filtered_df, kpi,
                   conv_by_type, roi_by_channel, swallowed, raised>>

\* the filter, and the empty-result guard: st.warning, st.stop()
Filter ==
    /\ pc = "apply"
    /\ filtered_df' =
           ApplyFilters(df, campaign_filter, channel_filter, company_filter)
    /\ IF Empty(filtered_df')
       THEN /\ ui' = ui \cup {"warning"}
            /\ pc' = "stopped"
       ELSE /\ ui' = ui
            /\ pc' = "kpi"
    /\ UNCHANGED <<fileExists, csv, cache, widgets, interacted, df,
                   campaign_filter, channel_filter, company_filter, kpi,
                   conv_by_type, roi_by_channel, swallowed, raised>>

\* The KPI block with the cost column assigned to df as well as filtered_df.
SummaryKPIsInPlace ==
    /\ pc = "kpi"
    /\ filtered_df' = SetColumn(filtered_df, "Acquisition_Cost_Numeric",
                                CostColumn(filtered_df))
    /\ df' = SetColumn(df, "Acquisition_Cost_Numeric", CostColumn(df))
    /\ kpi' = SummaryKpis(df, filtered_df')
    /\ ui' = ui \cup {"kpis"}
    /\ pc' = "charts"
    /\ UNCHANGED <<fileExists, csv, cache, widgets, interacted,
                   campaign_filter, channel_filter, company_filter,
                   conv_by_type, roi_by_channel, swallowed, raised>>

\* the cost column and the four st.metric tiles
SummaryKPIs ==
    /\ pc = "kpi"
    /\ LET cost == CostColumn(filtered_df)
       IN  IF \E i \in 1..Len(cost) : IsError(cost[i])
           THEN /\ raised' = "ValueError"
                /\ pc' = "crashed"
                /\ UNCHANGED <<filtered_df, kpi, ui>>
           ELSE /\ filtered_df' =
                       SetColumn(filtered_df, "Acquisition_Cost_Numeric", cost)
                /\ kpi' = SummaryKpis(df, filtered_df')
                /\ ui' = ui \cup {"kpis"}
                /\ pc' = "charts"
                /\ UNCHANGED raised
    /\ UNCHANGED <<fileExists, csv, cache, widgets, interacted, df,
                   campaign_filter, channel_filter, company_filter,
                   conv_by_type, roi_by_channel, swallowed>>

\* the two grouped bar charts, the treemap, the pie and the scatter plot
Charts ==
    /\ pc = "charts"
    /\ conv_by_type' = GroupByMean(filtered_df, "Campaign_Type", "Conversion_Rate")
    /\ roi_by_channel' =
           SortValuesDesc(GroupByMean(filtered_df, "Channel_Used", "ROI"))
    /\ ui' = ui \cup {"fig1", "fig2", "fig3", "fig4", "fig5"}
    /\ pc' = "trend"
    /\ UNCHANGED <<fileExists, csv, cache, widgets, interacted, df,
                   campaign_filter, channel_filter, company_filter,
                   filtered_df, kpi, swallowed, raised>>

\* try: parse Date, draw the trend line if some date parsed; except: pass.
\* plotFails stands for px.line raising (for instance on a missing column).
TimeSeries ==
    /\ pc = "trend"
    /\ \E plotFails \in BOOLEAN :
         LET hasDate == "Date" \in filtered_df.columns
             parsed == IF hasDate
                       THEN [i \in 1..Len(filtered_df.rows) |->
                              ToDatetime(filtered_df.rows[i].Date)]
                       ELSE <<>>
             plots == hasDate /\ ~AllNull(parsed)
             exc == IF ~hasDate THEN "KeyError"
                    ELSE IF plots /\ plotFails THEN "ValueError"
                    ELSE "none"
         IN  /\ filtered_df' = (IF hasDate
                                THEN SetColumn(filtered_df, "Date", parsed)
                                ELSE filtered_df)
             /\ ui' = (IF plots /\ exc = "none" THEN ui \cup {"fig6"} ELSE ui)
             /\ IF exc = "none" \/ ExceptCatches(exc)
                THEN /\ swallowed' = exc
                     /\ pc' = "table"
                     /\ UNCHANGED raised
                ELSE /\ raised' = exc
                     /\ pc' = "crashed"
                     /\ UNCHANGED swallowed
    /\ UNCHANGED <<fileExists, csv, cache, widgets, interacted, df,
                   campaign_filter, channel_filter, company_filter, kpi,
                   conv_by_type, roi_by_channel>>

\* st.dataframe(filtered_df[[...]])
DataTable ==
    /\ pc = "table"
    /\ ui' = ui \cup {"table"}
    /\ pc' = "done"
    /\ UNCHANGED <<fileExists, csv, cache, widgets, interacted, df,
                   campaign_filter, channel_filter, company_filter,
                   filtered_df, kpi, conv_by_type, roi_by_channel, swallowed,
                   raised>>

\* The user changes one multiselect that is on the page: the widget keeps the
\* new value and the script is rerun from the top.
UserSelect(dim, selection) ==
    /\ "filters" \in ui
    /\ selection \subseteq Range(Column(df, dim))
    /\ selection # widgets[dim]
    /\ widgets' = [widgets EXCEPT ![dim] = selection]
    /\ interacted' = TRUE
    /\ FreshRun
    /\ UNCHANGED <<fileExists, csv, cache>>

\* A rerun without a widget change, after a run has ended.
Rerun ==
    /\ pc \in {"done", "stopped", "crashed"}
    /\ FreshRun
    /\ UNCHANGED <<fileExists, csv, cache, widgets, interacted>>

\* The CSV file is deleted between two runs.
RemoveFile ==
    /\ pc \in {"done", "stopped", "crashed"}
    /\ fileExists
    /\ fileExists' = FALSE
    /\ csv' = NoFrame
    /\ UNCHANGED <<cache, widgets, interacted, pc, df, campaign_filter,
                   channel_filter, company_filter, filtered_df, kpi,
                   conv_by_type, roi_by_channel, ui, swallowed, raised>>

Next ==
    \/ LoadDataOk
    \/ LoadDataMissing
    \/ Sidebar
    \/ Filter
    \/ SummaryKPIs
    \/ Charts
    \/ TimeSeries
    \/ DataTable
    \/ \E dim \in Dims : \E selection \in SUBSET Range(Column(df, dim)) :
           UserSelect(dim, selection)
    \/ Rerun
    \/ RemoveFile

Spec == Init /\ [][Next]_vars

(***************************************************************************)
(* Reference values, computed directly from the rows of the dataset        *)
(***************************************************************************)
\* Indices of the rows whose value in each dimension is in its selection.
MatchIdx(frame, campaign, channel, company) ==
    { i \in 1..Len(frame.rows) :
        /\ frame.rows[i].Campaign_Type \in campaign
        /\ frame.rows[i].Channel_Used \in channel
        /\ frame.rows[i].Company \in company }

\* The same with an empty selection read as "unconstrained".
MatchIdxEmptyOpen(frame, campaign, channel, company) ==
    { i \in 1..Len(frame.rows) :
        /\ campaign = {} \/ frame.rows[i].Campaign_Type \in campaign
        /\ channel = {} \/ frame.rows[i].Channel_Used \in channel
        /\ company = {} \/ frame.rows[i].Company \in company }

\* The k-th smallest index of M.
Kth(M, k) == CHOOSE i \in M : Cardinality({ j \in M : j < i }) = k - 1

\* The rows of the frame at the indices M, in the frame's order.
RefRows(frame, M) == [k \in 1..Cardinality(M) |-> frame.rows[Kth(M, k)]]

RECURSIVE RefSum(_, _, _)
RefSum(frame, M, col) ==
    IF M = {} THEN 0
    ELSE LET i == CHOOSE x \in M : TRUE
         IN  frame.rows[i][col] + RefSum(frame, M \ {i}, col)

\* The number a currency text denotes, read off the text by position: each
\* digit weighs ten to the number of digits to its right.
RECURSIVE RefDigitSum(_, _, _)
RefDigitSum(text, todo, digitIdx) ==
    IF todo = {} THEN 0
    ELSE LET i == CHOOSE x \in todo : TRUE
         IN  DigitVal(text[i]) * Pow10(Cardinality({ j \in digitIdx : j > i }))
             + RefDigitSum(text, todo \ {i}, digitIdx)

RefMant(text) ==
    LET digitIdx == { i \in 1..Len(text) : text[i] \in Digits }
    IN  RefDigitSum(text, digitIdx, digitIdx)

RefExp(text) ==
    LET pointIdx == { i \in 1..Len(text) : text[i] = "." }
    IN  IF pointIdx = {} THEN 0
        ELSE Cardinality({ j \in 1..Len(text) :
                             text[j] \in Digits /\ \A p \in pointIdx : j > p })

\* The same number in cents (the texts of the pool have at most two decimals).
RefCents(text) == RefMant(text) * Pow10(2 - RefExp(text))

RECURSIVE RefSumCents(_, _)
RefSumCents(frame, M) ==
    IF M = {} THEN 0
    ELSE LET i == CHOOSE x \in M : TRUE
         IN  RefCents(frame.rows[i].Acquisition_Cost)
             + RefSumCents(frame, M \ {i})

Project(row, cols) == [c \in cols |-> row[c]]

\* Positions of the run
FilterJustRan == pc = "kpi" \/ (pc = "stopped" /\ "warning" \in ui)
PastGuard == pc \in {"kpi", "charts", "trend", "table", "done"}
FilterRan == PastGuard \/ (pc = "stopped" /\ "warning" \in ui)
KpisComputed == pc \in {"charts", "trend", "table", "done"}
ChartsComputed == pc \in {"trend", "table", "done"}

\* What the Aggregator and Renderer put on the page
Outputs == {"kpis", "fig1", "fig2", "fig3", "fig4", "fig5", "fig6", "table"}

Matching == MatchIdx(df, campaign_filter, channel_filter, company_filter)

(***************************************************************************)
(* Claims                                                                  *)
(***************************************************************************)
\* C1: right after the Filter step, filtered_df holds exactly the rows of df
\* whose Campaign_Type, Channel_Used and Company are each in that dimension's
\* selection, in df's order: none dropped, none added, columns unchanged.
C1_FilterExact ==
    FilterJustRan =>
        /\ filtered_df.columns = df.columns
        /\ Len(filtered_df.rows) = Cardinality(Matching)
        /\ \A k \in 1..Len(filtered_df.rows) :
               filtered_df.rows[k] = df.rows[Kth(Matching, k)]

\* C1 witness: a three-row dataset filtered down to its first and last row.
C1_Witness ==
    /\ pc = "kpi"
    /\ Len(df.rows) = 3
    /\ Matching = {1, 3}
    /\ Len(filtered_df.rows) = 2

\* C2 as stated: an empty selection leaves its dimension unconstrained, so a
\* row is kept iff every selection is empty or contains the row's value.
C2_EmptyIsUnconstrained ==
    FilterJustRan =>
        filtered_df.rows =
            RefRows(df, MatchIdxEmptyOpen(df, campaign_filter, channel_filter,
                                          company_filter))

\* C2 amended: an empty selection for a dimension excludes every row on that
\* dimension: a row is kept iff every selection contains the row's value, so
\* with any selection empty the filtered dataset is empty and the run stops
\* with the notice.
C2_EmptyExcludesAll ==
    FilterJustRan =>
        /\ \A i \in 1..Len(df.rows) :
               (\E k \in 1..Len(filtered_df.rows) :
                    filtered_df.rows[k] = df.rows[i])
               <=> (\E j \in Matching : df.rows[j] = df.rows[i])
        /\ ({} \in {campaign_filter, channel_filter, company_filter}) =>
               /\ Empty(filtered_df)
               /\ pc = "stopped"
               /\ "warning" \in ui

\* C2 witness: a non-empty dataset, Campaign_Type cleared, the other two
\* selections left at all values.
C2_Witness ==
    /\ pc = "stopped"
    /\ "warning" \in ui
    /\ df.rows # <<>>
    /\ campaign_filter = {}
    /\ channel_filter = Range(Column(df, "Channel_Used"))
    /\ company_filter = Range(Column(df, "Company"))

\* C3: the Aggregator is never reached with an empty filtered dataset; a run
\* whose selections match no row shows the notice and stops with no KPI,
\* grouped aggregate, chart or table computed or shown, and no error raised.
C3_EmptyHalts ==
    /\ PastGuard => (~Empty(filtered_df) /\ Matching # {})
    /\ (pc \notin {"load", "sidebar", "apply"} /\ "filters" \in ui
        /\ Matching = {}) =>
           /\ pc = "stopped"
           /\ "warning" \in ui
           /\ ui \cap Outputs = {}
           /\ DOMAIN kpi = {}
           /\ conv_by_type = <<>>
           /\ roi_by_channel = <<>>
           /\ raised = "none"

\* C3 witness: a non-empty dataset whose current selections match no row.
C3_Witness ==
    /\ pc = "stopped"
    /\ "warning" \in ui
    /\ Len(df.rows) >= 2
    /\ Empty(filtered_df)

\* C4: a run in which load_data finds no file (nothing cached, file absent)
\* shows the error and stops: nothing else is on the page, and no dataset,
\* selection or aggregate exists in the run.
C4_MissingFileHalts ==
    (pc # "load" /\ ~fileExists /\ ~Cached) =>
        /\ pc = "stopped"
        /\ ui = {"error", "info"}
        /\ df = NoFrame
        /\ filtered_df = NoFrame
        /\ ~widgets.registered
        /\ DOMAIN kpi = {}
        /\ raised = "none"

\* C4 witness: the run has stopped on the missing file.
C4_Witness ==
    /\ pc = "stopped"
    /\ "error" \in ui
    /\ ~fileExists

\* C5 as stated: the run computes the five scalar KPIs mean(Conversion_Rate),
\* mean(ROI), sum(Clicks), sum(Impressions) and mean(numeric
\* Acquisition_Cost), each equal to its reference over the matching rows.
C5_FiveKpis ==
    KpisComputed =>
        LET n == Cardinality(Matching)
        IN  /\ {"avg_conversion", "avg_roi", "total_clicks",
                "total_impressions", "avg_cost"} \subseteq DOMAIN kpi
            /\ kpi.avg_conversion.num * n =
                   RefSum(df, Matching, "Conversion_Rate") * kpi.avg_conversion.den
            /\ kpi.avg_roi.num * n =
                   RefSum(df, Matching, "ROI") * kpi.avg_roi.den
            /\ kpi.total_clicks = RefSum(df, Matching, "Clicks")
            /\ kpi.total_impressions = RefSum(df, Matching, "Impressions")
            /\ kpi.avg_cost = Frac(RefSumCents(df, Matching), 100 * n)

\* C5 amended: for a non-empty filtered result the scalar KPIs the run
\* computes - mean(Conversion_Rate), mean(ROI), sum(Clicks) and mean(numeric
\* Acquisition_Cost) - each equal the reference over exactly the rows of df
\* matching the selections; sum(Impressions) is not among the computed KPIs.
\* Rows A,A,B with Conversion_Rate 0.1,0.3,0.5 filtered to {A} give 2 rows and
\* mean 0.2.
C5_FourKpis ==
    KpisComputed =>
        LET n == Cardinality(Matching)
        IN  /\ n > 0
            /\ n = Len(filtered_df.rows)
            /\ "kpis" \in ui
            /\ DOMAIN kpi = {"avg_conversion", "conversion_delta", "avg_roi",
                             "roi_delta", "total_clicks", "avg_cost"}
            /\ kpi.avg_conversion.den > 0
            /\ kpi.avg_conversion.num * n =
                   RefSum(df, Matching, "Conversion_Rate") * kpi.avg_conversion.den
            /\ kpi.avg_roi.den > 0
            /\ kpi.avg_roi.num * n =
                   RefSum(df, Matching, "ROI") * kpi.avg_roi.den
            /\ kpi.total_clicks = RefSum(df, Matching, "Clicks")
            /\ kpi.avg_cost = Frac(RefSumCents(df, Matching), 100 * n)
            /\ (/\ Column(df, "Campaign_Type") = <<"A", "A", "B">>
                /\ Column(df, "Conversion_Rate") = <<10, 30, 50>>
                /\ campaign_filter = {"A"}
                /\ channel_filter = Range(Column(df, "Channel_Used"))
                /\ company_filter = Range(Column(df, "Company")))
               => (n = 2 /\ kpi.avg_conversion = [num |-> 20, den |-> 1])

\* C5 witness: the A,A,B scenario filtered to {A}, KPIs computed.
C5_Witness ==
    /\ pc = "charts"
    /\ Column(df, "Campaign_Type") = <<"A", "A", "B">>
    /\ Column(df, "Conversion_Rate") = <<10, 30, 50>>
    /\ campaign_filter = {"A"}
    /\ Len(filtered_df.rows) = 2
    /\ kpi.avg_conversion = [num |-> 20, den |-> 1]

\* C6: the cost conversion never fails on currency text, and every converted
\* cell is the number its text denotes once each '$' and ',' is removed: the
\* digits and the point are kept in order; "$1,234.50" gives 1234.50 and "$0"
\* gives 0.
C6_CostConversion ==
    /\ raised = "none"
    /\ KpisComputed =>
         \A i \in 1..Len(filtered_df.rows) :
           LET text == filtered_df.rows[i].Acquisition_Cost
               v == filtered_df.rows[i].Acquisition_Cost_Numeric
           IN  /\ ~IsError(v)
               /\ v.mant = RefMant(text)
               /\ v.exp = RefExp(text)
               /\ StrReplace(StrReplace(text, "$", <<>>), ",", <<>>) =
                      SelectSeq(text, LAMBDA c : c \notin {"$", ","})
               /\ text = Cost1234_50 => v = [mant |-> 123450, exp |-> 2]
               /\ text = Cost0 => v.mant = 0

\* C6 witness: "$1,234.50", "$0" and a text with two separators converted in
\* one run.
C6_Witness ==
    /\ pc = "charts"
    /\ {Cost1234_50, Cost0, Cost1234567} \subseteq
           Range(Column(filtered_df, "Acquisition_Cost"))
    /\ \E i \in 1..Len(filtered_df.rows) :
           filtered_df.rows[i].Acquisition_Cost_Numeric =
               [mant |-> 123456700, exp |-> 2]

\* C7: until the user changes a widget every selection is the set of all
\* values of its column, and whenever the three selections are all values the
\* filtered dataset equals the whole loaded dataset.
C7_DefaultsPassAll ==
    LET allSelected ==
            /\ campaign_filter = Range(Column(df, "Campaign_Type"))
            /\ channel_filter = Range(Column(df, "Channel_Used"))
            /\ company_filter = Range(Column(df, "Company"))
    IN  /\ (FilterJustRan /\ ~interacted) => allSelected
        /\ (FilterJustRan /\ allSelected) => filtered_df = df

\* C7 witness: the first run of a session over three rows with three channels.
C7_Witness ==
    /\ pc = "kpi"
    /\ ~interacted
    /\ Len(df.rows) = 3
    /\ Cardinality(channel_filter) = 3
    /\ filtered_df = df

\* The Date texts that are calendar dates.
ValidDates == {"2021-01-01", "2021-01-02"}

\* C8 (state part): no run ends on an exception; once the time-series block
\* has run, every Date that is no calendar date is missing (NaT) and every
\* other is parsed, a missing Date column has only cost a swallowed KeyError,
\* the trend chart is on the page only if some date parsed, and a finished
\* run shows the data table.
C8_Inv ==
    /\ raised = "none"
    /\ pc # "crashed"
    /\ pc \in {"table", "done"} =>
         /\ "fig6" \in ui =>
                /\ "Date" \in filtered_df.columns
                /\ \E k \in 1..Len(filtered_df.rows) :
                       ~filtered_df.rows[k].Date.nat
         /\ "Date" \in filtered_df.columns =>
                \A k \in 1..Len(filtered_df.rows) :
                    filtered_df.rows[k].Date.nat
                    <=> (df.rows[Kth(Matching, k)].Date \notin ValidDates)
         /\ "Date" \notin filtered_df.columns => swallowed = "KeyError"
    /\ pc = "done" => "table" \in ui

\* C8: date parsing failures never halt a run: C8_Inv always holds, and unless
\* the user restarts the script, the time-series block is followed by the
\* data table, which completes the run with the table on the page.
C8_DateFailuresNeverHalt ==
    /\ []C8_Inv
    /\ [][(pc = "trend" /\ pc' # "load") => pc' = "table"]_vars
    /\ [][(pc = "table" /\ pc' # "load") => (pc' = "done" /\ "table" \in ui')]_vars

\* C8 witness: a finished run in which one date parsed and another did not.
C8_Witness ==
    /\ pc = "done"
    /\ "table" \in ui
    /\ "fig6" \in ui
    /\ \E k \in 1..Len(filtered_df.rows) : filtered_df.rows[k].Date.nat
    /\ \E k \in 1..Len(filtered_df.rows) : ~filtered_df.rows[k].Date.nat

\* C9: roi_by_channel has exactly one entry per Channel_Used value of the
\* filtered rows, each entry's value is the mean ROI of the matching rows
\* with that channel, and no entry is followed by one with a larger mean.
C9_RoiByChannel ==
    ChartsComputed =>
        LET n == Len(roi_by_channel)
            keys == { roi_by_channel[i].key : i \in 1..n }
        IN  /\ keys = { df.rows[i].Channel_Used : i \in Matching }
            /\ keys = Range(Column(filtered_df, "Channel_Used"))
            /\ n = Cardinality(keys)
            /\ \A i \in 1..n :
                 LET e == roi_by_channel[i]
                     members == { j \in Matching : df.rows[j].Channel_Used = e.key }
                 IN  /\ e.value.den > 0
                     /\ e.value.num * Cardinality(members) =
                            RefSum(df, members, "ROI") * e.value.den
            /\ \A i \in 1..n : \A j \in 1..n :
                 i < j => ~FracLess(roi_by_channel[i].value, roi_by_channel[j].value)

\* C9 witness: three channels, the alphabetically first with the lowest mean.
C9_Witness ==
    /\ pc = "trend"
    /\ Len(roi_by_channel) = 3
    /\ roi_by_channel[3].key = "Email"
    /\ FracLess(roi_by_channel[3].value, roi_by_channel[1].value)

\* C10 (state part): the script's df is always the cached dataset with its
\* column names stripped (no derived column, Date still text), and the
\* filtered rows and KPIs of the run are those of the cached dataset under
\* the widgets' current values.
C10_Inv ==
    LET base == StripColumns(cache)
        M == MatchIdx(base, widgets.Campaign_Type, widgets.Channel_Used,
                      widgets.Company)
        keep == base.columns \ {"Date"}
    IN  /\ (Cached /\ pc # "load") => df = base
        /\ Cached => "Acquisition_Cost_Numeric" \notin cache.columns
        /\ FilterRan =>
             /\ Len(filtered_df.rows) = Cardinality(M)
             /\ \A k \in 1..Len(filtered_df.rows) :
                    Project(filtered_df.rows[k], keep) =
                        Project(base.rows[Kth(M, k)], keep)
        /\ KpisComputed =>
             /\ kpi.total_clicks = RefSum(base, M, "Clicks")
             /\ kpi.avg_conversion.num * Cardinality(M) =
                    RefSum(base, M, "Conversion_Rate") * kpi.avg_conversion.den
             /\ kpi.avg_roi.num * Cardinality(M) =
                    RefSum(base, M, "ROI") * kpi.avg_roi.den

\* C10: nothing is written back: C10_Inv always holds, the cached dataset
\* never changes once loaded, and no step of a run changes df after load.
C10_NothingWrittenBack ==
    /\ []C10_Inv
    /\ [][Cached => cache' = cache]_vars
    /\ [][(pc # "load" /\ pc' # "load") => df' = df]_vars

\* C10 witness: after a user interaction, a finished run whose filtered_df
\* carries the derived column and parsed dates while df does not.
C10_Witness ==
    /\ pc = "done"
    /\ interacted
    /\ Len(filtered_df.rows) < Len(df.rows)
    /\ "Acquisition_Cost_Numeric" \in filtered_df.columns
    /\ "Acquisition_Cost_Numeric" \notin df.columns
    /\ "Date" \in df.columns
    /\ df.rows[1].Date \in ValidDates
====
